---- MODULE Spec2Model ----
(***************************************************************************)
(* Model of the document ingestion pipeline of backend/main.py:            *)
(* upload_document creates a job record in the in-memory table jobs and    *)
(* starts process_pdf_with_new_workflow, which classifies the pages with   *)
(* ArcDiagramSeparator.separate_arc_diagrams and extracts text with        *)
(* DiagramTextExtractor.extract_text_from_pdf; get_task_status polls the   *)
(* job record.  One submission is one upload request; the coroutines run   *)
(* on one event loop, so the code between two awaits is one atomic action. *)
(* The SQL persistence blocks (main.py 671-755, 836-929) are wrapped in    *)
(* try/except, never touch the job table and are not modelled.             *)
(***************************************************************************)
EXTENDS Integers, Sequences, FiniteSets, TLC

VARIABLES
  now,                \* wall clock in milliseconds (datetime.now())
  jobs,               \* the job table: task id -> job record
  pc,                 \* position of each submission's request and workflow
  task_id,            \* task id computed by each upload request
  openable,           \* whether fitz.open succeeds on the uploaded file
  uploads,            \* submissions whose file is in UPLOAD_DIR
  pool,               \* submissions with a call running in the executor
  separation_result,  \* what separate_arc_diagrams returned to the workflow
  calls,              \* history: the offloaded calls each workflow has made
  final,              \* history: the terminal write of each workflow
  lastResponse,       \* the latest response of get_task_status
  modules_available,  \* ArcDiagramSeparator and DiagramTextExtractor imported
  sample_features,    \* exemplar features _load_sample_features can load
  vision_client,      \* DiagramTextExtractor.client is not None
  separator,          \* an ArcDiagramSeparator object called on its own
  document,           \* the document handed to that separator
  returned,           \* history: what its calls returned, with the threshold
  stage               \* position of each workflow that only uses the executor

(* the variables of the separator and of the executor taken on their own *)
harness == <<separator, document, returned, stage>>

(* the variables of the upload, workflow and polling handlers *)
pipeline == <<now, jobs, pc, task_id, openable, uploads, separation_result,
              calls, final, lastResponse, modules_available, sample_features,
              vision_client>>

vars == <<now, jobs, pc, task_id, openable, uploads, pool,
          separation_result, calls, final, lastResponse,
          modules_available, sample_features, vision_client,
          separator, document, returned, stage>>

(* ---------------- bounds of the model ---------------- *)
MaxJobs == 2
MaxPages == 2
MaxCalls == 2
MaxWorkflows == 4

Submissions == 1..MaxJobs
(* task ids are millisecond timestamps; MaxJobs of them tell all cases apart *)
TaskIds == 0..(MaxJobs - 1)
(* workflows that reach the executor while others are already in it *)
Workflows == 1..MaxWorkflows

(* ---------------- program constants ---------------- *)
(* a pool twice as large *)
MaxWorkers_Doubled == 3 + 3

MaxWorkers == 3
SimilarityThreshold == 70
GoodDistance == 50

(* Python values *)
None == [type |-> "None"]
Str(x) == [type |-> "str", value |-> x]
Truthy(x) == x # None
Get(d, key, default) == IF key \in DOMAIN d THEN d[key] ELSE default

(* ---------------- text as a sequence of tokens ---------------- *)
Ws == [k |-> "ws", p |-> 0]
Hdr(p) == [k |-> "hdr", p |-> p]
Txt(p) == [k |-> "txt", p |-> p]

RECURSIVE LStrip(_)
LStrip(t) == IF t # <<>> /\ Head(t) = Ws THEN LStrip(Tail(t)) ELSE t

RECURSIVE RStrip(_)
RStrip(t) ==
  IF t # <<>> /\ t[Len(t)] = Ws THEN RStrip(SubSeq(t, 1, Len(t) - 1)) ELSE t

Strip(t) == RStrip(LStrip(t))

(* ---------------- ArcDiagramSeparator ---------------- *)
(* A page as the classifier sees it: raises (rendering throws), des       *)
(* (ORB found descriptors), and per exemplar the matches of the           *)
(* cross-checked matcher as a sequence of Hamming distances.              *)
MatchLists == {<<>>, <<40, 40, 40, 40, 40, 40, 40, 50>>,
               <<40, 40, 40, 40, 40, 40, 40, 40>>}

RECURSIVE GoodMatches(_)
GoodMatches(matches) ==
  IF matches = <<>> THEN 0
  ELSE (IF Head(matches) < GoodDistance THEN 1 ELSE 0) + GoodMatches(Tail(matches))

(* the similarity with one match too many in the count *)
Similarity_OffByOne(matches, sample) == <<GoodMatches(matches) + 1, sample.kp>>

(* similarity = len(good_matches) / len(kp1) as a fraction <<num, den>> *)
Similarity(matches, sample) == <<GoodMatches(matches), sample.kp>>

(* a/b >= c/d in the place of a/b > c/d *)
FracGreater_OrEqual(x, y) == x[1] * y[2] >= y[1] * x[2]

(* a/b > c/d for positive denominators *)
FracGreater(x, y) == x[1] * y[2] > y[1] * x[2]

RECURSIVE MaxSimilarity(_, _, _)
MaxSimilarity(page, samples, i) ==
  IF i > Len(samples) THEN <<0, 1>>
  ELSE LET rest == MaxSimilarity(page, samples, i + 1)
           m == page.matches[i]
       IN IF m = <<>> THEN rest
          ELSE LET sim == Similarity(m, samples[i])
               IN IF FracGreater(sim, rest) THEN sim ELSE rest

(* the page test without the check for missing descriptors *)
IsArcPage_NoDescriptorCheck(page, samples, threshold) ==
  /\ ~page.raises
  /\ FracGreater(MaxSimilarity(page, samples, 1), <<threshold, 100>>)

(* the page test with the comparison turned around *)
IsArcPage_Below(page, samples, threshold) ==
  /\ ~page.raises
  /\ page.des
  /\ FracGreater(<<threshold, 100>>, MaxSimilarity(page, samples, 1))

IsArcPage(page, samples, threshold) ==
  /\ ~page.raises
  /\ page.des
  /\ FracGreater(MaxSimilarity(page, samples, 1), <<threshold, 100>>)

ArcPages(pages, samples, threshold) ==
  {i \in 0..(Len(pages) - 1) : IsArcPage(pages[i + 1], samples, threshold)}

(* the list in descending order *)
RECURSIVE SortedList_Descending(_)
SortedList_Descending(S) ==
  IF S = {} THEN <<>>
  ELSE LET m == CHOOSE x \in S : \A y \in S : x >= y
       IN <<m>> \o SortedList_Descending(S \ {m})

RECURSIVE SortedList(_)
SortedList(S) ==
  IF S = {} THEN <<>>
  ELSE LET m == CHOOSE x \in S : \A y \in S : x <= y
       IN <<m>> \o SortedList(S \ {m})

(* separate_arc_diagrams without the guard on an empty exemplar list *)
separate_arc_diagrams_NoGuard(samples, canOpen, pages, threshold) ==
  IF ~canOpen
  THEN [result |-> [error |-> Str("Error processing PDF"),
                    arc_pages |-> <<>>, non_arc_pages |-> <<>>, total_pages |-> 0],
        open_called |-> TRUE]
  ELSE LET arc == ArcPages(pages, samples, threshold)
           arc_page_list == SortedList(arc)
           non_arc_page_list == SortedList((0..(Len(pages) - 1)) \ arc)
       IN [result |-> [arc_pages |-> arc_page_list,
                       non_arc_pages |-> non_arc_page_list,
                       total_pages |-> Len(pages),
                       arc_count |-> Len(arc_page_list),
                       non_arc_count |-> Len(non_arc_page_list)],
           open_called |-> TRUE]

(* Returns the result dictionary; open_called records whether fitz.open   *)
(* was reached.                                                            *)
separate_arc_diagrams(samples, canOpen, pages, threshold) ==
  IF samples = <<>>
  THEN [result |-> [error |-> Str("No valid sample images loaded"),
                    arc_pages |-> <<>>, non_arc_pages |-> <<>>, total_pages |-> 0],
        open_called |-> FALSE]
  ELSE IF ~canOpen
  THEN [result |-> [error |-> Str("Error processing PDF"),
                    arc_pages |-> <<>>, non_arc_pages |-> <<>>, total_pages |-> 0],
        open_called |-> TRUE]
  ELSE LET arc == ArcPages(pages, samples, threshold)
           arc_page_list == SortedList(arc)
           non_arc_page_list == SortedList((0..(Len(pages) - 1)) \ arc)
           base == [arc_pages |-> arc_page_list,
                    non_arc_pages |-> non_arc_page_list,
                    total_pages |-> Len(pages),
                    arc_count |-> Len(arc_page_list),
                    non_arc_count |-> Len(non_arc_page_list)]
           withArc == IF arc_page_list # <<>>
                      THEN [arc_pdf_path |-> "arc_diagrams"] @@ base ELSE base
       IN [result |-> IF non_arc_page_list # <<>>
                      THEN [non_arc_pdf_path |-> "content_only"] @@ withArc
                      ELSE withArc,
           open_called |-> TRUE]

(* ---------------- DiagramTextExtractor ---------------- *)
PageOutcomes == {"text", "blank", "api_error", "exception"}

(* the page loop leaving at the first failed page instead of continuing *)
RECURSIVE ExtractPages_StopOnError(_, _, _)
ExtractPages_StopOnError(outcomes, page_num, acc) ==
  IF page_num >= Len(outcomes) THEN acc
  ELSE LET o == outcomes[page_num + 1]
           tried == [acc EXCEPT !.attempted = @ \cup {page_num + 1}]
       IN IF o \in {"api_error", "exception"}
          THEN tried
          ELSE LET page_text == IF o = "text" THEN <<Txt(page_num + 1)>> ELSE <<>>
                   page_data == [page_number |-> page_num + 1, text |-> page_text]
               IN ExtractPages_StopOnError(outcomes, page_num + 1,
                    [tried EXCEPT
                       !.pages_data = Append(@, page_data),
                       !.combined_text = @ \o <<Ws, Hdr(page_num + 1), Ws>> \o page_text])

RECURSIVE ExtractPages(_, _, _)
ExtractPages(outcomes, page_num, acc) ==
  IF page_num >= Len(outcomes) THEN acc
  ELSE LET o == outcomes[page_num + 1]
           tried == [acc EXCEPT !.attempted = @ \cup {page_num + 1}]
       IN IF o \in {"api_error", "exception"}
          THEN ExtractPages(outcomes, page_num + 1, tried)
          ELSE LET page_text == IF o = "text" THEN <<Txt(page_num + 1)>> ELSE <<>>
                   page_data == [page_number |-> page_num + 1, text |-> page_text]
               IN ExtractPages(outcomes, page_num + 1,
                    [tried EXCEPT
                       !.pages_data = Append(@, page_data),
                       !.combined_text = @ \o <<Ws, Hdr(page_num + 1), Ws>> \o page_text])

(* extract_text_from_pdf with the exception of a page reaching the outer  *)
(* handler, which gives up the whole document                             *)
extract_text_from_pdf_OuterExcept(client, exists, canOpen, outcomes) ==
  LET raising == {p \in 1..Len(outcomes) : outcomes[p] = "exception"}
      first == CHOOSE p \in raising : \A q \in raising : p <= q
      r == ExtractPages(outcomes, 0,
             [pages_data |-> <<>>, combined_text |-> <<>>, attempted |-> {}])
  IN IF client /\ exists /\ canOpen /\ raising # {}
     THEN [result |-> [error |-> Str("Error processing PDF"),
                       pages |-> <<>>, combined_text |-> <<>>],
           open_called |-> TRUE, opened |-> TRUE, attempted |-> 1..first]
     ELSE IF client /\ exists /\ canOpen
     THEN [result |-> [pages |-> r.pages_data,
                       combined_text |-> Strip(r.combined_text),
                       total_pages |-> Len(r.pages_data),
                       pdf_path |-> "original"],
           open_called |-> TRUE, opened |-> TRUE, attempted |-> r.attempted]
     ELSE [result |-> [error |-> Str("not processed"),
                       pages |-> <<>>, combined_text |-> <<>>],
           open_called |-> client /\ exists, opened |-> FALSE, attempted |-> {}]

extract_text_from_pdf(client, exists, canOpen, outcomes) ==
  IF ~client
  THEN [result |-> [error |-> Str("Google Cloud Vision API client not available"),
                    pages |-> <<>>, combined_text |-> <<>>],
        open_called |-> FALSE, opened |-> FALSE, attempted |-> {}]
  ELSE IF ~exists
  THEN [result |-> [error |-> Str("PDF file not found"),
                    pages |-> <<>>, combined_text |-> <<>>],
        open_called |-> FALSE, opened |-> FALSE, attempted |-> {}]
  ELSE IF ~canOpen
  THEN [result |-> [error |-> Str("Error processing PDF"),
                    pages |-> <<>>, combined_text |-> <<>>],
        open_called |-> TRUE, opened |-> FALSE, attempted |-> {}]
  ELSE LET r == ExtractPages(outcomes, 0,
                  [pages_data |-> <<>>, combined_text |-> <<>>, attempted |-> {}])
       IN [result |-> [pages |-> r.pages_data,
                       combined_text |-> Strip(r.combined_text),
                       total_pages |-> Len(r.pages_data),
                       pdf_path |-> "original"],
           open_called |-> TRUE, opened |-> TRUE, attempted |-> r.attempted]

(* ---------------- inputs ---------------- *)
PageKinds ==
  {[raises |-> TRUE, des |-> TRUE, matches |-> <<<<>>>>],
   [raises |-> FALSE, des |-> FALSE, matches |-> <<<<>>>>]}
  \cup {[raises |-> FALSE, des |-> TRUE, matches |-> <<m>>] : m \in MatchLists}

SeqsUpTo(S, n) == UNION {[1..k -> S] : k \in 1..n}

Documents == SeqsUpTo(PageKinds, MaxPages)
OutcomeSeqs == SeqsUpTo(PageOutcomes, MaxPages)
(* no exemplar loaded, or one exemplar with ten keypoints *)
SampleSets == {<<>>, <<[kp |-> 10]>>}

(* ---------------- the job table ---------------- *)
(* created_at is written once here and never read by the pipeline; it is   *)
(* left out of the record.                                                 *)
NewJob(doc_id) ==
  [status |-> "uploaded", result |-> None, error |-> None, progress |-> 5,
   status_message |-> "File uploaded successfully", current_stage |-> "upload",
   doc_id |-> doc_id]

SetField(table, t, field, value) == [table EXCEPT ![t][field] = value]

Update(table, t, status, result) ==
  [table EXCEPT ![t].status = status, ![t].result = result]

(* the except branch writing the status and leaving the error unset *)
WorkflowFailed_StatusOnly(table, t, message) ==
  SetField(table, t, "status", "failed")

(* the except branch also putting the progress back to zero *)
WorkflowFailed_ResetsProgress(table, t, message) ==
  SetField(SetField(SetField(table, t, "status", "failed"), t, "error", Str(message)),
           t, "progress", 0)

(* except Exception as e: of process_pdf_with_new_workflow *)
WorkflowFailed(table, t, message) ==
  SetField(SetField(table, t, "status", "failed"), t, "error", Str(message))

(* the fallback progress value with a digit dropped *)
FallbackProgress_Typo == 3 + 3

FallbackProgress == 60

FallbackResult(document_id, fallback_result) ==
  [document_id |-> document_id,
   workflow_type |-> "fallback_google_vision",
   total_pages |-> Get(fallback_result, "total_pages", 0),
   extracted_text |-> Get(fallback_result, "combined_text", <<>>),
   pages |-> Get(fallback_result, "total_pages", 0),
   message |-> "Processed with Google Cloud Vision API (fallback mode)"]

FallbackFinish(table, t, document_id, fallback_result) ==
  Update(SetField(table, t, "progress", 90), t, "completed",
         FallbackResult(document_id, fallback_result))

(* get_task_status returning the stored progress of a completed job *)
get_task_status_Stored(table, t) ==
  IF t \notin DOMAIN table
  THEN [task_id |-> t, status_code |-> 404]
  ELSE LET job == table[t]
           response_data ==
             [task_id |-> t, status_code |-> 200, status |-> job.status,
              progress |-> job.progress,
              message |-> job.status_message, current_stage |-> job.current_stage]
       IN IF job.status = "completed" /\ Truthy(job.result)
          THEN [result |-> job.result,
                redirect_to |-> job.result.document_id] @@ response_data
          ELSE IF job.status = "failed" /\ Truthy(job.error)
          THEN [error |-> job.error] @@ response_data
          ELSE response_data

get_task_status(table, t) ==
  IF t \notin DOMAIN table
  THEN [task_id |-> t, status_code |-> 404]
  ELSE LET job == table[t]
           response_data ==
             [task_id |-> t, status_code |-> 200, status |-> job.status,
              progress |-> job.progress,
              message |-> job.status_message, current_stage |-> job.current_stage]
       IN IF job.status = "completed" /\ Truthy(job.result)
          THEN [result |-> job.result, progress |-> 100,
                redirect_to |-> job.result.document_id] @@ response_data
          ELSE IF job.status = "failed" /\ Truthy(job.error)
          THEN [error |-> job.error] @@ response_data
          ELSE response_data

(* what a workflow left in the record when it returned *)
Written(table, t) ==
  [status |-> table[t].status, result |-> table[t].result, error |-> table[t].error]

(* ---------------- initial state ---------------- *)
Init ==
  /\ now = 0
  /\ jobs = <<>>
  /\ pc = [s \in Submissions |-> "idle"]
  /\ task_id = [s \in Submissions |-> 0]
  /\ openable = [s \in Submissions |-> FALSE]
  /\ uploads = {}
  /\ pool = {}
  /\ separation_result = [s \in Submissions |-> None]
  /\ calls = [s \in Submissions |-> <<>>]
  /\ final = [s \in Submissions |-> None]
  /\ lastResponse = None
  /\ modules_available \in BOOLEAN
  /\ sample_features \in SampleSets
  /\ vision_client \in BOOLEAN
  /\ ~modules_available => (sample_features = <<>> /\ ~vision_client)
  /\ separator = None
  /\ document = None
  /\ returned = <<>>
  /\ stage = [w \in Workflows |-> "start"]

(* ---------------- actions ---------------- *)
(* The wall clock reaches the next millisecond.  Only upload_document      *)
(* reads the clock: a millisecond in which no upload read it is            *)
(* indistinguishable from the one before, and so is one that no later      *)
(* upload will read.                                                       *)
Tick ==
  /\ now + 1 \in TaskIds
  /\ \E s \in Submissions : pc[s] # "idle" /\ task_id[s] = now
  /\ \E s \in Submissions : pc[s] = "idle"
  /\ now' = now + 1
  /\ UNCHANGED harness
  /\ UNCHANGED <<jobs, pc, task_id, openable, uploads, pool, separation_result,
                 calls, final, lastResponse, modules_available, sample_features,
                 vision_client>>

(* upload_document up to its first await: the task id is read off the     *)
(* clock and the file is created; the body is then streamed to disk.      *)
(* Requests are numbered in the order in which they read the clock.        *)
UploadBegin(s) ==
  /\ pc[s] = "idle"
  /\ \A r \in Submissions : r < s => pc[r] # "idle"
  /\ \E canOpen \in BOOLEAN : openable' = [openable EXCEPT ![s] = canOpen]
  /\ task_id' = [task_id EXCEPT ![s] = now]
  /\ uploads' = uploads \cup {s}
  /\ pc' = [pc EXCEPT ![s] = "reading"]
  /\ UNCHANGED harness
  /\ UNCHANGED <<now, jobs, pool, separation_result, calls, final, lastResponse,
                 modules_available, sample_features, vision_client>>

(* upload_document, except branch: the write failed, the file is removed   *)
(* and no job is created.                                                  *)
UploadReject(s) ==
  /\ pc[s] = "reading"
  /\ uploads' = uploads \ {s}
  /\ pc' = [pc EXCEPT ![s] = "rejected"]
  /\ UNCHANGED harness
  /\ UNCHANGED <<now, jobs, task_id, openable, pool, separation_result, calls,
                 final, lastResponse, modules_available, sample_features, vision_client>>

(* upload_document after the file is on disk: jobs[task_id] = {...} and    *)
(* asyncio.create_task(process_pdf_with_new_workflow(...)).                *)
UploadCommit(s) ==
  /\ pc[s] = "reading"
  /\ jobs' = (task_id[s] :> NewJob(s)) @@ jobs
  /\ pc' = [pc EXCEPT ![s] = "created"]
  /\ UNCHANGED harness
  /\ UNCHANGED <<now, task_id, openable, uploads, pool, separation_result, calls,
                 final, lastResponse, modules_available, sample_features, vision_client>>

(* process_pdf_with_new_workflow, main.py 628-631: the task starts and     *)
(* marks the job as processing.  No await separates this step from the    *)
(* next one; they are two actions so that every status the code writes is *)
(* a state of the model.                                                  *)
WorkflowStart(s) ==
  /\ pc[s] = "created"
  /\ jobs' = SetField(SetField(jobs, task_id[s], "status", "processing"),
                      task_id[s], "progress", 10)
  /\ pc' = [pc EXCEPT ![s] = "started"]
  /\ UNCHANGED harness
  /\ UNCHANGED <<now, task_id, openable, uploads, pool, separation_result, calls,
                 final, lastResponse, modules_available, sample_features,
                 vision_client>>

(* the workflow going on to the extraction without awaiting the          *)
(* separation call                                                        *)
WorkflowSeparate_NoAwait(s) ==
  /\ pc[s] = "started"
  /\ jobs' = SetField(jobs, task_id[s], "progress", 25)
  /\ pc' = [pc EXCEPT ![s] = "fallback_queued"]
  /\ UNCHANGED harness
  /\ UNCHANGED <<now, task_id, openable, uploads, pool, separation_result, calls,
                 final, lastResponse, modules_available, sample_features, vision_client>>

(* main.py 633-648: the module check, then the separator is built, which  *)
(* loads the exemplar features (ArcDiagramSeparator.__init__), and        *)
(* separate_arc_diagrams is handed to the executor.                       *)
WorkflowSeparate(s) ==
  /\ pc[s] = "started"
  /\ LET t == task_id[s]
     IN IF ~modules_available
        THEN /\ jobs' = WorkflowFailed(jobs, t, "Workflow modules not available")
             /\ uploads' = uploads \ {s}
             /\ pc' = [pc EXCEPT ![s] = "failed"]
             /\ final' = [final EXCEPT ![s] = Written(jobs', t)]
             /\ calls' = calls
        ELSE /\ jobs' = SetField(jobs, t, "progress", 25)
             /\ uploads' = uploads
             /\ pc' = [pc EXCEPT ![s] = "separation_queued"]
             /\ final' = final
             /\ calls' = [calls EXCEPT ![s] =
                            Append(@, [fn |-> "_load_sample_features",
                                       loaded |-> Len(sample_features)])]
  /\ UNCHANGED harness
  /\ UNCHANGED <<now, task_id, openable, pool, separation_result,
                 lastResponse, modules_available, sample_features, vision_client>>

(* a worker thread of the ThreadPoolExecutor picks the submitted call up *)
ExecutorStart(s) ==
  /\ pc[s] \in {"separation_queued", "fallback_queued"}
  /\ Cardinality(pool) < MaxWorkers
  /\ pool' = pool \cup {s}
  /\ pc' = [pc EXCEPT ![s] = IF pc[s] = "separation_queued"
                             THEN "separation_running" ELSE "fallback_running"]
  /\ UNCHANGED harness
  /\ UNCHANGED <<now, jobs, task_id, openable, uploads, separation_result, calls,
                 final, lastResponse, modules_available, sample_features, vision_client>>

(* the KeyError of line 775 leaving the task with no handler *)
SeparationDone_Unhandled(s) ==
  /\ pc[s] = "separation_running"
  /\ \E pages \in Documents :
       LET t == task_id[s]
           sep == separate_arc_diagrams(sample_features, openable[s], pages,
                                        SimilarityThreshold)
           r == sep.result
           half == SetField(jobs, t, "progress", 50)
       IN /\ separation_result' = [separation_result EXCEPT ![s] = r]
          /\ calls' = [calls EXCEPT ![s] =
                         Append(@, [fn |-> "separate_arc_diagrams", pdf |-> "original",
                                    open_called |-> sep.open_called])]
          /\ IF Truthy(Get(r, "error", None))
             THEN /\ jobs' = SetField(half, t, "progress", FallbackProgress)
                  /\ uploads' = uploads
                  /\ pc' = [pc EXCEPT ![s] = "fallback_queued"]
                  /\ final' = final
             ELSE IF "non_arc_pages_count" \notin DOMAIN r
             THEN /\ jobs' = half
                  /\ uploads' = uploads
                  /\ pc' = [pc EXCEPT ![s] = "crashed"]
                  /\ final' = final
             ELSE /\ jobs' = half
                  /\ uploads' = uploads
                  /\ pc' = [pc EXCEPT ![s] = "step2"]
                  /\ final' = final
  /\ pool' = pool \ {s}
  /\ UNCHANGED harness
  /\ UNCHANGED <<now, task_id, openable, lastResponse, modules_available,
                 sample_features, vision_client>>

(* separate_arc_diagrams returns and the workflow resumes (main.py         *)
(* 649-667, 772-775).  The result dictionary has no key                   *)
(* non_arc_pages_count, so the lookup at line 775 raises KeyError and the  *)
(* except branch at 953-959 runs; lines 776-951 are never reached.         *)
SeparationDone(s) ==
  /\ pc[s] = "separation_running"
  /\ \E pages \in Documents :
       LET t == task_id[s]
           sep == separate_arc_diagrams(sample_features, openable[s], pages,
                                        SimilarityThreshold)
           r == sep.result
           half == SetField(jobs, t, "progress", 50)
       IN /\ separation_result' = [separation_result EXCEPT ![s] = r]
          /\ calls' = [calls EXCEPT ![s] =
                         Append(@, [fn |-> "separate_arc_diagrams", pdf |-> "original",
                                    open_called |-> sep.open_called])]
          /\ IF Truthy(Get(r, "error", None))
             THEN /\ jobs' = SetField(half, t, "progress", FallbackProgress)
                  /\ uploads' = uploads
                  /\ pc' = [pc EXCEPT ![s] = "fallback_queued"]
                  /\ final' = final
             ELSE IF "non_arc_pages_count" \notin DOMAIN r
             THEN /\ jobs' = WorkflowFailed(half, t, "'non_arc_pages_count'")
                  /\ uploads' = uploads \ {s}
                  /\ pc' = [pc EXCEPT ![s] = "failed"]
                  /\ final' = [final EXCEPT ![s] = Written(jobs', t)]
             ELSE /\ jobs' = half
                  /\ uploads' = uploads
                  /\ pc' = [pc EXCEPT ![s] = "step2"]
                  /\ final' = final
  /\ pool' = pool \ {s}
  /\ UNCHANGED harness
  /\ UNCHANGED <<now, task_id, openable, lastResponse, modules_available,
                 sample_features, vision_client>>

(* extract_text_from_pdf returns on the fallback path and the workflow     *)
(* resumes up to its return (main.py 668-770).                             *)
FallbackDone(s) ==
  /\ pc[s] = "fallback_running"
  /\ \E outcomes \in OutcomeSeqs :
       LET t == task_id[s]
           x == extract_text_from_pdf(vision_client, s \in uploads, openable[s],
                                      outcomes)
       IN /\ jobs' = FallbackFinish(jobs, t, s, x.result)
          /\ final' = [final EXCEPT ![s] = Written(jobs', t)]
          /\ calls' = [calls EXCEPT ![s] =
                         Append(@, [fn |-> "extract_text_from_pdf", pdf |-> "original",
                                    open_called |-> x.open_called,
                                    opened |-> x.opened,
                                    doc_pages |-> IF x.opened THEN Len(outcomes) ELSE 0,
                                    extracted |-> Get(x.result, "total_pages", 0),
                                    page_numbers |->
                                      [i \in 1..Len(x.result.pages) |->
                                         x.result.pages[i].page_number],
                                    failed |->
                                      IF x.opened
                                      THEN {p \in 1..Len(outcomes) :
                                              outcomes[p] \in {"api_error", "exception"}}
                                      ELSE {},
                                    attempted |-> x.attempted])]
  /\ pool' = pool \ {s}
  /\ pc' = [pc EXCEPT ![s] = "completed"]
  /\ UNCHANGED harness
  /\ UNCHANGED <<now, task_id, openable, uploads, separation_result,
                 lastResponse, modules_available, sample_features, vision_client>>

(* GET /task-status/{task_id} *)
Poll(t) ==
  /\ lastResponse' = get_task_status(jobs, t)
  /\ UNCHANGED harness
  /\ UNCHANGED <<now, jobs, pc, task_id, openable, uploads, pool,
                 separation_result, calls, final, modules_available, sample_features,
                 vision_client>>

Next ==
  \/ Tick
  \/ \E s \in Submissions : UploadBegin(s)
  \/ \E s \in Submissions : UploadReject(s)
  \/ \E s \in Submissions : UploadCommit(s)
  \/ \E s \in Submissions : WorkflowStart(s)
  \/ \E s \in Submissions : WorkflowSeparate(s)
  \/ \E s \in Submissions : ExecutorStart(s)
  \/ \E s \in Submissions : SeparationDone(s)
  \/ \E s \in Submissions : FallbackDone(s)
  \/ \E t \in TaskIds : Poll(t)

Spec == Init /\ [][Next]_vars

(* The event loop runs every task that is ready, a worker that is free    *)
(* takes the next call, and every offloaded call returns or raises.       *)
FairSpec ==
  /\ Spec
  /\ \A s \in Submissions :
       /\ WF_vars(WorkflowStart(s))
       /\ WF_vars(WorkflowSeparate(s))
       /\ WF_vars(ExecutorStart(s))
       /\ WF_vars(SeparationDone(s))
       /\ WF_vars(FallbackDone(s))

TypeOK ==
  /\ now \in TaskIds
  /\ DOMAIN jobs \subseteq TaskIds
  /\ pool \subseteq Submissions \cup Workflows
  /\ Cardinality(pool) <= MaxWorkers

(* ---------------- the separator on its own ---------------- *)
(* similarity thresholds in hundredths, the configured one among them *)
Thresholds == {0 - 10, 0, SimilarityThreshold, 80, 100}

(* the exemplar images that load: none, one, or two of different size *)
ExemplarSets == {<<>>, <<[kp |-> 10]>>, <<[kp |-> 10], [kp |-> 8]>>}

(* pages as the separator sees them, with the matches against two exemplars *)
ScannedPageKinds ==
  {[raises |-> TRUE, des |-> TRUE, matches |-> <<<<>>, <<>>>>],
   [raises |-> FALSE, des |-> FALSE, matches |-> <<<<>>, <<>>>>]}
  \cup {[raises |-> FALSE, des |-> TRUE, matches |-> <<m1, m2>>] :
          m1 \in MatchLists, m2 \in MatchLists}

ScannedDocuments ==
  {[canOpen |-> FALSE, pages |-> <<>>]}
  \cup {[canOpen |-> TRUE, pages |-> pg] : pg \in SeqsUpTo(ScannedPageKinds, MaxPages)}

(* ArcDiagramSeparator.__init__ *)
ArcDiagramSeparator(similarity_threshold, loaded) ==
  [similarity_threshold |-> similarity_threshold, sample_features |-> loaded]

(* a call that uses up the first exemplar *)
SeparatorAfterCall_Consumes(self) ==
  [self EXCEPT !.sample_features = IF @ = <<>> THEN @ ELSE Tail(@)]

(* separate_arc_diagrams assigns no attribute of self *)
SeparatorAfterCall(self) == self

InitClassify ==
  /\ now = 0
  /\ jobs = <<>>
  /\ pc = [s \in Submissions |-> "idle"]
  /\ task_id = [s \in Submissions |-> 0]
  /\ openable = [s \in Submissions |-> FALSE]
  /\ uploads = {}
  /\ pool = {}
  /\ separation_result = [s \in Submissions |-> None]
  /\ calls = [s \in Submissions |-> <<>>]
  /\ final = [s \in Submissions |-> None]
  /\ lastResponse = None
  /\ modules_available = TRUE
  /\ sample_features = <<>>
  /\ vision_client = FALSE
  /\ stage = [w \in Workflows |-> "start"]
  /\ \E t \in Thresholds : \E loaded \in ExemplarSets :
       separator = ArcDiagramSeparator(t, loaded)
  /\ document \in ScannedDocuments
  /\ returned = <<>>

(* separator.separate_arc_diagrams(pdf_path, output_dir) *)
Separate ==
  /\ Len(returned) < MaxCalls
  /\ LET sep == separate_arc_diagrams(separator.sample_features, document.canOpen,
                                      document.pages, separator.similarity_threshold)
     IN returned' = Append(returned,
                           [threshold |-> separator.similarity_threshold,
                            result |-> sep.result])
  /\ separator' = SeparatorAfterCall(separator)
  /\ UNCHANGED <<document, stage, pool>>
  /\ UNCHANGED pipeline

(* a separator is built for the same exemplar images with another threshold *)
Reconfigure(t) ==
  /\ Len(returned) < MaxCalls
  /\ t # separator.similarity_threshold
  /\ separator' = ArcDiagramSeparator(t, separator.sample_features)
  /\ UNCHANGED <<document, returned, stage, pool>>
  /\ UNCHANGED pipeline

NextClassify ==
  \/ Separate
  \/ \E t \in Thresholds : Reconfigure(t)

ClassifySpec == InitClassify /\ [][NextClassify]_vars

(* ---------------- the executor on its own ---------------- *)
InitExec ==
  /\ now = 0
  /\ jobs = <<>>
  /\ pc = [s \in Submissions |-> "idle"]
  /\ task_id = [s \in Submissions |-> 0]
  /\ openable = [s \in Submissions |-> FALSE]
  /\ uploads = {}
  /\ pool = {}
  /\ separation_result = [s \in Submissions |-> None]
  /\ calls = [s \in Submissions |-> <<>>]
  /\ final = [s \in Submissions |-> None]
  /\ lastResponse = None
  /\ modules_available = TRUE
  /\ sample_features = <<>>
  /\ vision_client = FALSE
  /\ stage = [w \in Workflows |-> "start"]
  /\ separator = None
  /\ document = None
  /\ returned = <<>>

(* a workflow reaches await loop.run_in_executor(executor, ...) for the   *)
(* separation (main.py 642)                                                *)
Offload(w) ==
  /\ stage[w] = "start"
  /\ stage' = [stage EXCEPT ![w] = "separation_queued"]
  /\ UNCHANGED <<separator, document, returned, pool>>
  /\ UNCHANGED pipeline

(* a free worker thread takes the call *)
WorkerStart(w) ==
  /\ stage[w] \in {"separation_queued", "fallback_queued"}
  /\ Cardinality(pool) < MaxWorkers
  /\ pool' = pool \cup {w}
  /\ stage' = [stage EXCEPT ![w] = IF stage[w] = "separation_queued"
                                   THEN "separation_running" ELSE "fallback_running"]
  /\ UNCHANGED <<separator, document, returned>>
  /\ UNCHANGED pipeline

(* the call returns: after a separation the workflow either offloads the  *)
(* fallback extraction (main.py 661) or ends; after the fallback it ends  *)
WorkerDone(w) ==
  /\ stage[w] \in {"separation_running", "fallback_running"}
  /\ pool' = pool \ {w}
  /\ \E fallback \in BOOLEAN :
       stage' = [stage EXCEPT ![w] =
                   IF stage[w] = "separation_running" /\ fallback
                   THEN "fallback_queued" ELSE "done"]
  /\ UNCHANGED <<separator, document, returned>>
  /\ UNCHANGED pipeline

NextExec ==
  \/ \E w \in Workflows : Offload(w)
  \/ \E w \in Workflows : WorkerStart(w)
  \/ \E w \in Workflows : WorkerDone(w)

ExecSpec == InitExec /\ [][NextExec]_vars

(* ---------------- ProgressTracker on its own ---------------- *)
(* self.stages of ProgressTracker.__init__, with the band of            *)
(* separation starting five points late                                 *)
Stages_Gap ==
  [upload |-> [min |-> 0, max |-> 5, message |-> "File uploaded successfully"],
   database_save |-> [min |-> 5, max |-> 10, message |-> "Saving to database..."],
   analysis |-> [min |-> 10, max |-> 25, message |-> "Analyzing document structure..."],
   separation |-> [min |-> 30, max |-> 35, message |-> "Separating arc diagrams..."],
   ocr_processing |-> [min |-> 35, max |-> 65, message |-> "Extracting text from pages..."],
   vision_processing |-> [min |-> 65, max |-> 85, message |-> "Processing diagrams..."],
   combining |-> [min |-> 85, max |-> 95, message |-> "Combining results..."],
   finalizing |-> [min |-> 95, max |-> 100, message |-> "Finalizing processing..."]]

(* self.stages of ProgressTracker.__init__ *)
Stages ==
  [upload |-> [min |-> 0, max |-> 5, message |-> "File uploaded successfully"],
   database_save |-> [min |-> 5, max |-> 10, message |-> "Saving to database..."],
   analysis |-> [min |-> 10, max |-> 25, message |-> "Analyzing document structure..."],
   separation |-> [min |-> 25, max |-> 35, message |-> "Separating arc diagrams..."],
   ocr_processing |-> [min |-> 35, max |-> 65, message |-> "Extracting text from pages..."],
   vision_processing |-> [min |-> 65, max |-> 85, message |-> "Processing diagrams..."],
   combining |-> [min |-> 85, max |-> 95, message |-> "Combining results..."],
   finalizing |-> [min |-> 95, max |-> 100, message |-> "Finalizing processing..."]]

(* the stage names a caller can pass: the known ones and one that is not *)
StageNames == DOMAIN Stages \cup {"export"}

(* sub_progress as a fraction <<numerator, denominator>> of [0,1]; the    *)
(* bands are multiples of five wide, so with fifths the float product    *)
(* is a whole number                                                     *)
SubProgress == {<<0, 5>>, <<1, 5>>, <<2, 5>>, <<3, 5>>, <<4, 5>>, <<5, 5>>}

PyMin(a, b) == IF b < a THEN b ELSE a
PyMax(a, b) == IF b > a THEN b ELSE a

(* update_progress adding the share of the band to zero *)
update_progress_FromZero(table, task, name, sub_progress) ==
  IF name \notin DOMAIN Stages THEN table
  ELSE LET stage_info == Stages[name]
           progress_range == stage_info.max - stage_info.min
           current_progress == (progress_range * sub_progress[1]) \div sub_progress[2]
       IN [table EXCEPT ![task].progress = PyMin(100, PyMax(0, current_progress)),
                        ![task].status_message = stage_info.message,
                        ![task].current_stage = name]

(* ProgressTracker.update_progress for the tracker of job task *)
update_progress(table, task, name, sub_progress) ==
  IF name \notin DOMAIN Stages THEN table
  ELSE LET stage_info == Stages[name]
           progress_range == stage_info.max - stage_info.min
           current_progress ==
             stage_info.min + (progress_range * sub_progress[1]) \div sub_progress[2]
       IN [table EXCEPT ![task].progress = PyMin(100, PyMax(0, current_progress)),
                        ![task].status_message = stage_info.message,
                        ![task].current_stage = name]

(* every submission has uploaded its file, under its own task id, and has *)
(* a ProgressTracker                                                      *)
InitTracker ==
  /\ now = 0
  /\ jobs = [t \in TaskIds |-> NewJob(t + 1)]
  /\ pc = [s \in Submissions |-> "created"]
  /\ task_id = [s \in Submissions |-> s - 1]
  /\ openable = [s \in Submissions |-> FALSE]
  /\ uploads = Submissions
  /\ pool = {}
  /\ separation_result = [s \in Submissions |-> None]
  /\ calls = [s \in Submissions |-> <<>>]
  /\ final = [s \in Submissions |-> None]
  /\ lastResponse = None
  /\ modules_available = TRUE
  /\ sample_features = <<>>
  /\ vision_client = FALSE
  /\ stage = [w \in Workflows |-> "start"]
  /\ separator = None
  /\ document = None
  /\ returned = <<>>

(* progress_tracker.update_progress(stage, sub_progress); calls keeps the *)
(* latest call of each tracker                                            *)
UpdateProgress(s, name, sub_progress) ==
  /\ jobs' = update_progress(jobs, task_id[s], name, sub_progress)
  /\ calls' = [calls EXCEPT ![s] = <<[fn |-> "update_progress", stage |-> name,
                                      sub_progress |-> sub_progress]>>]
  /\ UNCHANGED <<now, pc, task_id, openable, uploads, pool, separation_result,
                 final, lastResponse, modules_available, sample_features,
                 vision_client>>
  /\ UNCHANGED harness

NextTracker ==
  \E s \in Submissions : \E name \in StageNames : \E sub_progress \in SubProgress :
    UpdateProgress(s, name, sub_progress)

TrackerSpec == InitTracker /\ [][NextTracker]_vars

(* ======================= properties ======================= *)
Committed(s) == pc[s] \notin {"idle", "reading", "rejected"}
Returned(s) == pc[s] \in {"completed", "failed"}

(* the submissions whose upload_document has written jobs[t] *)
Writers(t) == {s \in Submissions : Committed(s) /\ task_id[s] = t}

SeparationCalls(s) ==
  {i \in 1..Len(calls[s]) : calls[s][i].fn = "separate_arc_diagrams"}
ExtractionCalls(s) ==
  {i \in 1..Len(calls[s]) : calls[s][i].fn = "extract_text_from_pdf"}
ProseCalls(s) ==
  {i \in 1..Len(calls[s]) : calls[s][i].fn = "process_pdf_from_frontend"}

ClassificationError(s) ==
  /\ separation_result[s] # None
  /\ Truthy(Get(separation_result[s], "error", None))

ClassificationOk(s) ==
  /\ separation_result[s] # None
  /\ ~Truthy(Get(separation_result[s], "error", None))

IsAnswer(r) == r # None /\ r.status_code = 200

(* C1: successive polls of a job return non-decreasing progress values,   *)
(* in every interleaving of the polls with the steps of that job's        *)
(* workflow (the job's record is written by that one workflow).           *)
C1_PollsNonDecreasing ==
  [][(/\ IsAnswer(lastResponse) /\ IsAnswer(lastResponse')
      /\ lastResponse.task_id = lastResponse'.task_id
      /\ Cardinality(Writers(lastResponse.task_id)) = 1)
     => lastResponse'.progress >= lastResponse.progress]_vars

(* a poll answered 60 on the fallback path and the next poll answers 100 *)
C1_Witness ==
  /\ IsAnswer(lastResponse)
  /\ lastResponse.progress = 60
  /\ Cardinality(Writers(lastResponse.task_id)) = 1
  /\ get_task_status(jobs, lastResponse.task_id).progress = 100

StatusStep(old, new) ==
  \/ new = old
  \/ old = "uploaded" /\ new = "processing"
  \/ old = "processing" /\ new \in {"completed", "failed"}

(* C2: the status of a job id moves only uploaded -> processing ->        *)
(* completed or failed, never backwards, never past processing, and not   *)
(* at all once it is completed or failed, whatever uploads and workflow   *)
(* steps happen.                                                          *)
C2_StatusLifecycle ==
  [][\A t \in DOMAIN jobs : StatusStep(jobs[t].status, jobs'[t].status)]_vars

(* C3: a poll that returns status completed returns progress 100 *)
C3_CompletedReports100 ==
  /\ IsAnswer(lastResponse) /\ lastResponse.status = "completed"
       => lastResponse.progress = 100
  /\ \A t \in DOMAIN jobs :
       get_task_status(jobs, t).status = "completed"
         => get_task_status(jobs, t).progress = 100

(* a poll has returned a completed job whose stored progress is 90 *)
C3_Witness ==
  /\ IsAnswer(lastResponse)
  /\ lastResponse.status = "completed"
  /\ jobs[lastResponse.task_id].status = "completed"
  /\ jobs[lastResponse.task_id].progress = 90

(* C4: once the record of a job id is completed or failed, its result and *)
(* error never change again, whatever uploads and workflow steps follow.  *)
C4_TerminalWriteOnce ==
  [][\A t \in DOMAIN jobs :
       jobs[t].status \in {"completed", "failed"}
         => jobs'[t].result = jobs[t].result /\ jobs'[t].error = jobs[t].error]_vars

(* C5: a document that cannot be opened, neither by the classifier nor by *)
(* the diagram engine, ends failed with no pages recorded, never          *)
(* completed.                                                             *)
C5_UnopenableFails ==
  \A s \in Submissions :
    (/\ Returned(s)
     /\ ~openable[s]
     /\ \A i \in SeparationCalls(s) \cup ExtractionCalls(s) :
          calls[s][i].open_called)
      => final[s].status = "failed" /\ final[s].result = None

(* every page of the document was tried and none was extracted *)
ZeroYield(s) ==
  \E i \in ExtractionCalls(s) :
    /\ calls[s][i].opened
    /\ calls[s][i].attempted # {}
    /\ calls[s][i].extracted = 0

(* C6: when extraction fails for every page the job ends failed with a    *)
(* non-empty error, never completed with empty text.                      *)
C6_ZeroYieldFails ==
  \A s \in Submissions :
    (Returned(s) /\ ZeroYield(s))
      => final[s].status = "failed" /\ Truthy(final[s].error)

(* the document could not be opened or rasterized at all: the file does   *)
(* not open, or the modules that rasterize are missing                    *)
RasterizerFailed(s) == ~modules_available \/ ~openable[s]

(* C7: a job becomes failed only if the document could not be opened or   *)
(* rasterized at all or zero pages were extracted.                        *)
C7_FailedOnlyIfFatal ==
  \A s \in Submissions :
    pc[s] = "failed" => (RasterizerFailed(s) \/ ZeroYield(s))

(* C8: after a classification error the original document goes through    *)
(* the diagram engine, page by page, the prose engine is not called, and  *)
(* the job ends completed with the fallback label.                        *)
C8_FallbackOnClassificationError ==
  \A s \in Submissions :
    ClassificationError(s) =>
      /\ pc[s] \in {"fallback_queued", "fallback_running", "completed"}
      /\ ProseCalls(s) = {}
      /\ \A i \in ExtractionCalls(s) :
           /\ calls[s][i].pdf = "original"
           /\ calls[s][i].opened
                => calls[s][i].attempted = 1..calls[s][i].doc_pages
      /\ pc[s] = "completed" =>
           /\ ExtractionCalls(s) # {}
           /\ final[s].status = "completed"
           /\ final[s].result.workflow_type = "fallback_google_vision"
           /\ final[s].result.document_id = s

(* a two-page document, its second page failing, completed by fallback *)
C8_Witness ==
  \E s \in Submissions :
    /\ ClassificationError(s)
    /\ pc[s] = "completed"
    /\ \E i \in ExtractionCalls(s) :
         /\ calls[s][i].doc_pages = 2
         /\ calls[s][i].extracted = 1
    /\ final[s].result.workflow_type = "fallback_google_vision"

(* C9: with no exemplar loaded, classification reports an error without   *)
(* opening the document, the fallback path is taken and the job ends      *)
(* completed.                                                             *)
C9_NoExemplarsFallback ==
  \A s \in Submissions :
    (sample_features = <<>> /\ SeparationCalls(s) # {}) =>
      /\ \A i \in SeparationCalls(s) : ~calls[s][i].open_called
      /\ ClassificationError(s)
      /\ pc[s] \in {"fallback_queued", "fallback_running", "completed"}
      /\ pc[s] = "completed" => final[s].status = "completed"

(* no exemplar, one page extracted, job completed *)
C9_Witness ==
  \E s \in Submissions :
    /\ sample_features = <<>>
    /\ pc[s] = "completed"
    /\ final[s].status = "completed"
    /\ final[s].result.total_pages >= 1

(* C10: a successful classification with a diagram page and a prose page  *)
(* ends completed with a page count equal to the document's page count.   *)
C10_PrimaryCompletes ==
  \A s \in Submissions :
    (/\ Returned(s)
     /\ ClassificationOk(s)
     /\ separation_result[s].arc_count >= 1
     /\ separation_result[s].non_arc_count >= 1)
      => /\ final[s].status = "completed"
         /\ final[s].result.pages = separation_result[s].total_pages

(* C11: a page whose extraction fails (error response or exception) does   *)
(* not stop the extraction: every page of the document is still           *)
(* attempted, the job does not become failed, and with at least one page  *)
(* extracted the job ends completed.                                      *)
C11_PageFailureDoesNotAbort ==
  \A s \in Submissions : \A i \in ExtractionCalls(s) :
    (calls[s][i].opened /\ calls[s][i].failed # {}) =>
      /\ calls[s][i].attempted = 1..calls[s][i].doc_pages
      /\ pc[s] # "failed"
      /\ (Returned(s) /\ calls[s][i].extracted >= 1) =>
           final[s].status = "completed"

(* page 1 of two failed, page 2 was extracted, the job is completed *)
C11_Witness ==
  \E s \in Submissions : \E i \in ExtractionCalls(s) :
    /\ calls[s][i].doc_pages = 2
    /\ calls[s][i].failed = {1}
    /\ calls[s][i].page_numbers = <<2>>
    /\ final[s] # None /\ final[s].status = "completed"

(* C12: the per-page results of an N-page document have exactly one entry *)
(* for each page number 1..N, whatever pages failed.                      *)
C12_OneEntryPerPage ==
  \A s \in Submissions : \A i \in ExtractionCalls(s) :
    calls[s][i].opened =>
      /\ Len(calls[s][i].page_numbers) = calls[s][i].doc_pages
      /\ \A k \in 1..calls[s][i].doc_pages : calls[s][i].page_numbers[k] = k

(* C17: distinct submissions get distinct job ids, so the record of a job *)
(* id is created by one upload and written by one workflow.               *)
C17_DistinctJobIds ==
  \A t \in TaskIds : Cardinality(Writers(t)) <= 1

(* C19: in every state of the job table the error of a job is set only if *)
(* its status is failed, a completed job has no error and a failed job    *)
(* has no result.                                                         *)
C19_ErrorOnlyWhenFailed ==
  \A t \in DOMAIN jobs :
    /\ Truthy(jobs[t].error) => jobs[t].status = "failed"
    /\ jobs[t].status = "completed" => jobs[t].error = None
    /\ jobs[t].status = "failed" => jobs[t].result = None

(* the page numbers of the page texts that follow section header i, up to *)
(* the next section header                                                *)
SectionAt(text, i) == i \in 1..Len(text) /\ text[i].k = "section"
GroupPages(text, i) ==
  LET last == CHOOSE j \in i..Len(text) :
                /\ \A k \in (i + 1)..j : ~SectionAt(text, k)
                /\ j = Len(text) \/ SectionAt(text, j + 1)
  IN [k \in 1..(last - i) |-> text[i + k]]

Ascending(text) ==
  \A a, b \in 1..Len(text) :
    (a < b /\ text[a].k = "txt" /\ text[b].k = "txt") => text[a].p < text[b].p

(* C20: the combined text of a document classified on the primary         *)
(* workflow is built group by group, each group with text under its own   *)
(* section header, the page texts of a group in ascending page order.     *)
C20_GroupedCombinedText ==
  \A s \in Submissions :
    (Returned(s) /\ ClassificationOk(s) /\ separation_result[s].total_pages >= 1)
      => /\ final[s].result # None
         /\ LET text == final[s].result.extracted_text
            IN /\ \A i \in 1..Len(text) :
                    text[i].k = "txt" => \E j \in 1..(i - 1) : SectionAt(text, j)
               /\ \A i \in 1..Len(text) :
                    SectionAt(text, i) =>
                      /\ \E k \in 1..Len(GroupPages(text, i)) :
                           GroupPages(text, i)[k].k = "txt"
                      /\ Ascending(GroupPages(text, i))

(* C21: within one job the stages run in sequence: the separation call   *)
(* has returned before an extraction call is queued or started, at most   *)
(* one call of the job is in the executor, and the terminal status is     *)
(* written only after every call of the job has returned.                 *)
C21_StagesInSequence ==
  \A s \in Submissions :
    /\ (pc[s] \in {"fallback_queued", "fallback_running"} \/ ExtractionCalls(s) # {})
         => SeparationCalls(s) # {}
    /\ \A i \in SeparationCalls(s) : \A j \in ExtractionCalls(s) : i < j
    /\ pc[s] \in {"separation_queued", "separation_running"}
         => SeparationCalls(s) = {} /\ ExtractionCalls(s) = {}
    /\ s \in pool <=> pc[s] \in {"separation_running", "fallback_running"}
    /\ final[s] # None => (s \notin pool /\ Returned(s))
    /\ pc[s] = "completed" => ExtractionCalls(s) # {}

(* a job completed after its separation call and then its extraction call *)
C21_Witness ==
  \E s \in Submissions :
    /\ pc[s] = "completed"
    /\ \E i \in SeparationCalls(s) : \E j \in ExtractionCalls(s) : i < j
    /\ final[s] # None /\ final[s].status = "completed"
    /\ pool = {}

(* C22: no poll, in whatever interleaving with the workflows, sees a      *)
(* half-written terminal record: completed with no result or failed with  *)
(* no error.                                                              *)
C22_TerminalWritesAtomic ==
  /\ \A t \in DOMAIN jobs :
       /\ jobs[t].status = "completed" => jobs[t].result # None
       /\ jobs[t].status = "failed" => jobs[t].error # None
  /\ IsAnswer(lastResponse) =>
       /\ lastResponse.status = "completed" =>
            ("result" \in DOMAIN lastResponse /\ lastResponse.result # None)
       /\ lastResponse.status = "failed" =>
            ("error" \in DOMAIN lastResponse /\ lastResponse.error # None)

(* a poll has answered failed with the error while the other job is still *)
(* being processed                                                        *)
C22_Witness ==
  /\ IsAnswer(lastResponse)
  /\ lastResponse.status = "failed"
  /\ "error" \in DOMAIN lastResponse
  /\ \E s \in Submissions : pc[s] \in {"separation_running", "fallback_running"}

LoadCalls(s) ==
  {i \in 1..Len(calls[s]) : calls[s][i].fn = "_load_sample_features"}

(* C26: over any number of jobs the exemplar features are loaded at most  *)
(* once.                                                                  *)
C26_ExemplarsLoadedOnce ==
  Cardinality(UNION {{<<s, i>> : i \in LoadCalls(s)} : s \in Submissions}) <= 1

(* the step is the KeyError after separation, raised after progress 50    *)
(* was written in the same run of the workflow                            *)
RaisedAfterSeparation(t) ==
  \E s \in Submissions :
    task_id[s] = t /\ pc[s] = "separation_running" /\ pc'[s] = "failed"

(* C27: the step that makes a job failed changes its status and error     *)
(* only: result, current stage and status message are unchanged and the   *)
(* progress is the last value written before the exception; the progress  *)
(* of a failed job, written by its one workflow, stays as it is.          *)
C27_FailureFrame ==
  [][\A t \in DOMAIN jobs :
       /\ (jobs[t].status # "failed" /\ jobs'[t].status = "failed") =>
            /\ jobs'[t].result = jobs[t].result
            /\ jobs'[t].current_stage = jobs[t].current_stage
            /\ jobs'[t].status_message = jobs[t].status_message
            /\ jobs'[t].doc_id = jobs[t].doc_id
            /\ jobs'[t].error # None
            /\ jobs'[t].progress = IF RaisedAfterSeparation(t) THEN 50
                                   ELSE jobs[t].progress
       /\ (jobs[t].status = "failed" /\ Cardinality(Writers(t)) = 1
             /\ Cardinality(Writers(t)') = 1) =>
            jobs'[t] = jobs[t]]_vars

(* a job failed by the KeyError, its progress at 50 and its stage and     *)
(* message still those of the upload                                      *)
C27_Witness ==
  \E t \in DOMAIN jobs :
    /\ jobs[t].status = "failed"
    /\ jobs[t].error = Str("'non_arc_pages_count'")
    /\ jobs[t].progress = 50
    /\ jobs[t].current_stage = "upload"
    /\ jobs[t].result = None

(* C30: every job that was created reaches completed or failed, every     *)
(* offloaded call returning or raising.                                   *)
C30_EveryJobTerminates ==
  \A s \in Submissions :
    (pc[s] = "created") ~>
      (Returned(s) /\ final[s] # None /\ final[s].status \in {"completed", "failed"})

(* both jobs are over, one failed by an exception and one completed *)
C30_Witness ==
  /\ \A s \in Submissions : Returned(s)
  /\ \E s \in Submissions : final[s].status = "failed"
  /\ \E s \in Submissions : final[s].status = "completed"

(* ---- properties of the separator on its own ---- *)
Range(f) == {f[i] : i \in DOMAIN f}
Classified(e) == "error" \notin DOMAIN e.result

(* the score of a page as the ratio <<good matches, exemplar keypoints>>  *)
(* that no other exemplar exceeds                                         *)
Ratios(page, samples) ==
  {<<Cardinality({k \in 1..Len(page.matches[i]) : page.matches[i][k] < 50}),
     samples[i].kp>> : i \in 1..Len(samples)}
Score(page, samples) ==
  CHOOSE x \in Ratios(page, samples) :
    \A y \in Ratios(page, samples) : x[1] * y[2] >= y[1] * x[2]
ScoreAbove(page, samples, threshold) ==
  Score(page, samples)[1] * 100 > threshold * Score(page, samples)[2]

Blank(page) == ~page.raises /\ ~page.des
Featured(page) == ~page.raises /\ page.des

(* C13: a page without descriptors is placed in the prose group at every  *)
(* threshold, the call reports no error, and the other pages are still    *)
(* classified.                                                            *)
C13_BlankPageIsProse ==
  \A n \in 1..Len(returned) :
    LET e == returned[n]
        pages == document.pages
    IN (/\ document.canOpen
        /\ separator.sample_features # <<>>
        /\ \E p \in 1..Len(pages) : Blank(pages[p]))
       => /\ Classified(e)
          /\ e.result.total_pages = Len(pages)
          /\ \A p \in 1..Len(pages) :
               /\ Blank(pages[p]) =>
                    /\ (p - 1) \in Range(e.result.non_arc_pages)
                    /\ (p - 1) \notin Range(e.result.arc_pages)
               /\ (Featured(pages[p])
                   /\ ScoreAbove(pages[p], separator.sample_features, e.threshold))
                    => (p - 1) \in Range(e.result.arc_pages)

(* a blank first page is prose at a threshold below zero and the second   *)
(* page is a diagram                                                      *)
C13_Witness ==
  \E n \in 1..Len(returned) :
    /\ returned[n].threshold < 0
    /\ Len(document.pages) = 2
    /\ Blank(document.pages[1])
    /\ Classified(returned[n])
    /\ returned[n].result.non_arc_pages = <<0>>
    /\ returned[n].result.arc_pages = <<1>>

(* C14: for the same document and exemplars and thresholds t1 < t2, the   *)
(* arc pages at t2 are a subset of the arc pages at t1.                   *)
C14_ThresholdMonotone ==
  \A i, j \in 1..Len(returned) :
    returned[i].threshold < returned[j].threshold
      => Range(returned[j].result.arc_pages) \subseteq Range(returned[i].result.arc_pages)

(* a page that is a diagram at the lower threshold and prose at the higher *)
C14_Witness ==
  \E i, j \in 1..Len(returned) :
    /\ returned[i].threshold < returned[j].threshold
    /\ Classified(returned[i]) /\ Classified(returned[j])
    /\ Range(returned[j].result.arc_pages) # Range(returned[i].result.arc_pages)
    /\ returned[j].result.arc_pages # <<>>

(* C15: the score of a page is the largest ratio of good matches to       *)
(* exemplar keypoints over the loaded exemplars, and the page is a        *)
(* diagram exactly when the score is strictly above the threshold.        *)
C15_ScoreAndStrictThreshold ==
  \A n \in 1..Len(returned) :
    Classified(returned[n]) =>
      \A p \in 1..Len(document.pages) :
        Featured(document.pages[p]) =>
          /\ (p - 1) \in Range(returned[n].result.arc_pages)
               <=> ScoreAbove(document.pages[p], separator.sample_features,
                              returned[n].threshold)
          /\ (p - 1) \in Range(returned[n].result.non_arc_pages)
               <=> ~ScoreAbove(document.pages[p], separator.sample_features,
                               returned[n].threshold)

(* with two exemplars: page 1 scores 7/10 against the first and nothing   *)
(* against the second, equal to the threshold, and is prose; page 2       *)
(* scores 7/10 and 8/8 and is a diagram                                    *)
C15_Witness ==
  \E n \in 1..Len(returned) :
    /\ returned[n].threshold = SimilarityThreshold
    /\ Len(separator.sample_features) = 2
    /\ Len(document.pages) = 2
    /\ Featured(document.pages[1]) /\ Featured(document.pages[2])
    /\ Ratios(document.pages[1], separator.sample_features) = {<<7, 10>>, <<0, 8>>}
    /\ Ratios(document.pages[2], separator.sample_features) = {<<7, 10>>, <<8, 8>>}
    /\ returned[n].result.non_arc_pages = <<0>>
    /\ returned[n].result.arc_pages = <<1>>

IsAscending(list) == \A i, j \in 1..Len(list) : i < j => list[i] < list[j]

(* C28: when separate_arc_diagrams returns without error, arc_pages and   *)
(* non_arc_pages partition 0..total_pages-1, a page that raised or has    *)
(* no descriptors is in non_arc_pages, both lists are ascending and the   *)
(* two counts add up to total_pages.                                      *)
C28_PagesPartitioned ==
  \A n \in 1..Len(returned) :
    Classified(returned[n]) =>
      LET r == returned[n].result
      IN /\ r.total_pages = Len(document.pages)
         /\ Range(r.arc_pages) \cup Range(r.non_arc_pages) = 0..(r.total_pages - 1)
         /\ Range(r.arc_pages) \cap Range(r.non_arc_pages) = {}
         /\ IsAscending(r.arc_pages) /\ IsAscending(r.non_arc_pages)
         /\ r.arc_count = Len(r.arc_pages) /\ r.non_arc_count = Len(r.non_arc_pages)
         /\ r.arc_count + r.non_arc_count = r.total_pages
         /\ \A p \in 1..Len(document.pages) :
              (document.pages[p].raises \/ ~document.pages[p].des)
                => (p - 1) \in Range(r.non_arc_pages)

(* a page that raised and a diagram page: one index in each list *)
C28_Witness ==
  \E n \in 1..Len(returned) :
    /\ Classified(returned[n])
    /\ Len(document.pages) = 2
    /\ document.pages[1].raises
    /\ returned[n].result.non_arc_pages = <<0>>
    /\ returned[n].result.arc_pages = <<1>>

(* two diagram pages: arc_pages lists them in ascending order *)
C28_WitnessOrder ==
  \E n \in 1..Len(returned) : returned[n].result.arc_pages = <<0, 1>>

Executing == {w \in Workflows : stage[w] \in {"separation_running", "fallback_running"}}

(* C18: at every moment at most 3 offloaded calls, of whatever kind and   *)
(* of whatever job, are executing, and every executing call holds a       *)
(* worker of the one pool.                                                *)
C18_AtMostThreeHeavyCalls ==
  /\ Cardinality(Executing) <= 3
  /\ Executing = pool

(* three calls of both kinds are executing and a fourth one is waiting *)
C18_Witness ==
  /\ Cardinality(Executing) = 3
  /\ \E w \in Executing : stage[w] = "separation_running"
  /\ \E w \in Executing : stage[w] = "fallback_running"
  /\ \E w \in Workflows : stage[w] \in {"separation_queued", "fallback_queued"}

(* ---- properties of ProgressTracker on its own ---- *)
LatestCall(s) == calls[s][Len(calls[s])]

(* C23: after update_progress(stage, sub_progress) with a known stage the *)
(* progress of the job is min + (max - min) * sub_progress of that stage, *)
(* inside the band of the stage, and the current stage and the status     *)
(* message are those of the stage.                                        *)
C23_ProgressInBand ==
  \A s \in Submissions :
    (calls[s] # <<>> /\ LatestCall(s).stage \in DOMAIN Stages) =>
      LET band == Stages[LatestCall(s).stage]
          sub == LatestCall(s).sub_progress
          job == jobs[task_id[s]]
      IN /\ job.progress * sub[2] = band.min * sub[2] + (band.max - band.min) * sub[1]
         /\ band.min <= job.progress /\ job.progress <= band.max
         /\ job.current_stage = LatestCall(s).stage
         /\ job.status_message = band.message

(* three fifths of the way through ocr_processing is 53 *)
C23_Witness ==
  \E s \in Submissions :
    /\ calls[s] # <<>>
    /\ LatestCall(s).stage = "ocr_processing"
    /\ LatestCall(s).sub_progress = <<3, 5>>
    /\ jobs[task_id[s]].progress = 53
    /\ jobs[task_id[s]].current_stage = "ocr_processing"

InBand(v, name) == Stages[name].min <= v /\ v <= Stages[name].max
BandsOf(v) == {a \in DOMAIN Stages : InBand(v, a)}
Tracked(s) == calls[s] # <<>>

(* C24 as stated: no progress value lies in the closed bands of two       *)
(* stages, and every value from 0 to 100 lies in the band of some stage.  *)
C24_BandsDisjointAndCover ==
  /\ \A s \in Submissions :
       Tracked(s) => Cardinality(BandsOf(jobs[task_id[s]].progress)) = 1
  /\ \A v \in 0..100 : BandsOf(v) # {}

(* C24 amended: the bands cover 0..100 and two bands have at most an     *)
(* end point in common, the max of the one being the min of the other,   *)
(* so a progress value lies in one band or in two adjacent ones.         *)
C24_BandsMeetAtEndpoints ==
  /\ \A v \in 0..100 : BandsOf(v) # {}
  /\ \A v \in 0..100 : \A a, b \in BandsOf(v) :
       a # b =>
         \/ v = Stages[a].max /\ v = Stages[b].min
         \/ v = Stages[b].max /\ v = Stages[a].min
  /\ \A a \in DOMAIN Stages : Stages[a].min < Stages[a].max
  /\ \A s \in Submissions :
       Tracked(s) => Cardinality(BandsOf(jobs[task_id[s]].progress)) \in {1, 2}

(* one job is at 5 at the end of upload, the other at 5 at the start of   *)
(* database_save                                                          *)
C24_Witness ==
  \E s1, s2 \in Submissions :
    /\ jobs[task_id[s1]].progress = 5
    /\ jobs[task_id[s1]].current_stage = "upload"
    /\ calls[s1] # <<>>
    /\ jobs[task_id[s2]].progress = 5
    /\ jobs[task_id[s2]].current_stage = "database_save"

(* C25: over any sequence of update_progress calls on a job, with known   *)
(* stages in any order, the stored progress never decreases.              *)
C25_TrackerNeverDecreases ==
  [][\A t \in DOMAIN jobs : jobs'[t].progress >= jobs[t].progress]_vars

====
